---------------------------- MODULE Spec2Model ----------------------------
(***************************************************************************)
(* India Export Market Intelligence dashboard (src/app.py).                *)
(*                                                                         *)
(* One Streamlit server process serves script runs.  Every run executes    *)
(* app.py from the top: load_data() (memoised by st.cache_data), the HSN   *)
(* input gate, and - only when the Analyze button fired - the report       *)
(* sections in source order.  The input file is static.                    *)
(*                                                                         *)
(* Numbers: a numeric cell of the frame is <<v>> (v an integer) or NaN,    *)
(* the missing marker.  Medians of an even count are halves, so medians    *)
(* are carried doubled (Median2); ratios are carried as num/den records.   *)
(***************************************************************************)
EXTENDS Integers, Sequences, FiniteSets, TLC

\* Largest number of data rows of the input table.
MaxRows == 2

None == "None"
NaN == <<>>
Absent == <<"<absent>">>

IsNaN(x) == x = NaN
Num(v) == <<v>>

-----------------------------------------------------------------------------
(* The input file data/trade_map_2024.txt: a header row and data rows.     *)

Importers == "Importers"
ValueHdr == "Select your indicators-Value exported in 2024 (USD thousand)"
GrowthHdr == "Select your indicators-Growth in exported value between 2020-2024 (%, p.a.)"
RankHdr == "Select your indicators-Ranking of partner countries in world imports"

SourceHeaders == {Importers, ValueHdr, GrowthHdr, RankHdr}

\* Raw text cells, as character sequences.
Countries == {"World", "USA", "UAE"}
ExportCells == {<<"3", "0">>, <<"7", "0">>, <<"N", "/", "A">>}
GrowthCells == {<<"0">>, <<"-", "2">>, <<"n", ".", "a", ".">>}
RankCells == {<<"7">>, <<"1", ",", "0">>}
\* world_rank plays no part in the report: the report runs read parsable ranks.
ReportRankCells == {<<"7">>}

\* Header sets of the file: all four source columns, or one of them lacking.
HeaderSets == {SourceHeaders} \cup {SourceHeaders \ {h} : h \in SourceHeaders}

\* The data rows a file with header set H can hold, each cell under the name its
\* column has after the rename (no cell under a lacking header).
RowsFor(H, ranks) ==
    { [country |-> c, export_value |-> e, growth |-> g, world_rank |-> r] :
        c \in (IF Importers \in H THEN Countries ELSE {"<absent>"}),
        e \in (IF ValueHdr \in H THEN ExportCells ELSE {Absent}),
        g \in (IF GrowthHdr \in H THEN GrowthCells ELSE {Absent}),
        r \in (IF RankHdr \in H THEN ranks ELSE {Absent}) }

\* f is a file: a header set and at most MaxRows data rows under it.
IsFile(f, ranks) ==
    \E H \in HeaderSets, k \in 0..MaxRows :
        \E rs \in [1..k -> RowsFor(H, ranks)] : f = [headers |-> H, rows |-> rs]

-----------------------------------------------------------------------------
(* pd.read_csv + rename: the frame's columns by canonical name.            *)

rename(h) ==
    CASE h = Importers -> "country"
      [] h = ValueHdr -> "export_value"
      [] h = GrowthHdr -> "growth"
      [] h = RankHdr -> "world_rank"
      [] OTHER -> h

Columns(f) == { rename(h) : h \in f.headers }

\* Variant: a lacking growth column is read as a column of missing values.
HasColumnLenient(f, col) == col = "growth" \/ col \in Columns(f)

\* df[col] raises KeyError when col is no column of the frame.
HasColumn(f, col) == col \in Columns(f)

NumericCols == <<"export_value", "growth", "world_rank">>

\* load_data() reaches its return statement only if every df[...] lookup succeeds.
LookupsSucceed(f) ==
    /\ HasColumn(f, "country")
    /\ \A i \in 1..Len(NumericCols) : HasColumn(f, NumericCols[i])

-----------------------------------------------------------------------------
(* pd.to_numeric(errors="coerce") on one cell.                             *)

Digits == {"0", "1", "2", "3", "4", "5", "6", "7", "8", "9"}

DigitVal(c) ==
    CASE c = "0" -> 0 [] c = "1" -> 1 [] c = "2" -> 2 [] c = "3" -> 3 [] c = "4" -> 4
      [] c = "5" -> 5 [] c = "6" -> 6 [] c = "7" -> 7 [] c = "8" -> 8 [] c = "9" -> 9

RECURSIVE ParseDigits(_, _)
\* The value of a digit string, or NaN at the first non-digit.
ParseDigits(s, acc) ==
    IF s = <<>> THEN Num(acc)
    ELSE IF Head(s) \in Digits THEN ParseDigits(Tail(s), 10 * acc + DigitVal(Head(s)))
    ELSE NaN

\* Variant: a cell that does not parse becomes 0.
to_numeric_zero(cell) ==
    LET p == IF cell # <<>> /\ Head(cell) = "-" THEN NaN ELSE ParseDigits(cell, 0)
    IN  IF IsNaN(p) THEN Num(0) ELSE p

to_numeric(cell) ==
    IF cell = <<>> THEN NaN
    ELSE IF Head(cell) = "-"
         THEN IF Tail(cell) = <<>> THEN NaN
              ELSE LET p == ParseDigits(Tail(cell), 0)
                   IN  IF IsNaN(p) THEN NaN ELSE Num(0 - p[1])
    ELSE ParseDigits(cell, 0)

-----------------------------------------------------------------------------
(* Sequence helpers.                                                       *)

RECURSIVE TrueIdx(_, _)
\* The indices i..Len(mask) at which the boolean mask is TRUE, ascending.
TrueIdx(mask, i) ==
    IF i > Len(mask) THEN <<>>
    ELSE (IF mask[i] THEN <<i>> ELSE <<>>) \o TrueIdx(mask, i + 1)

Pick(s, idx) == [k \in 1..Len(idx) |-> s[idx[k]]]

\* df[mask]: boolean indexing, row order kept.
Filter(s, mask) == Pick(s, TrueIdx(mask, 1))

RECURSIVE Insert(_, _)
\* v inserted into the ascending integer sequence s.
Insert(s, v) ==
    IF s = <<>> THEN <<v>>
    ELSE IF v <= Head(s) THEN <<v>> \o s
    ELSE <<Head(s)>> \o Insert(Tail(s), v)

RECURSIVE SortAsc(_)
SortAsc(s) == IF s = <<>> THEN <<>> ELSE Insert(SortAsc(Tail(s)), Head(s))

\* The non-missing values of column col, in row order.
Values(d, col) == LET present == Filter(d, [i \in 1..Len(d) |-> ~IsNaN(d[i][col])])
                  IN  [k \in 1..Len(present) |-> present[k][col][1]]

RECURSIVE SumSeq(_)
SumSeq(s) == IF s = <<>> THEN 0 ELSE Head(s) + SumSeq(Tail(s))

RECURSIVE MaxSeq(_)
MaxSeq(s) == IF Len(s) = 1 THEN s[1]
             ELSE LET m == MaxSeq(Tail(s)) IN IF Head(s) >= m THEN Head(s) ELSE m

\* Series.median(): NaN skipped; twice the median, or NaN when no value is left.
Median2(d, col) ==
    LET v == SortAsc(Values(d, col))
        n == Len(v)
    IN  IF n = 0 THEN NaN
        ELSE Num(v[(n + 1) \div 2] + v[(n + 2) \div 2])

\* Series.sum(): NaN skipped, 0 for no value.
Sum(d, col) == SumSeq(Values(d, col))

\* Series.max(): NaN skipped, NaN for no value.
Max(d, col) == IF Values(d, col) = <<>> THEN NaN ELSE Num(MaxSeq(Values(d, col)))

-----------------------------------------------------------------------------
(* load_data(): the body between pd.read_csv and return.                   *)

\* df[df["country"] != "World"]
RemoveAggregate(rows) == Filter(rows, [i \in 1..Len(rows) |-> rows[i].country # "World"])

\* for col in [...]: df[col] = pd.to_numeric(df[col], errors="coerce")
Coerce(row) ==
    [row EXCEPT !.export_value = to_numeric(@),
                !.growth = to_numeric(@),
                !.world_rank = to_numeric(@)]

\* Comparisons of a numeric cell; every comparison with NaN is False.
GeMedian(x, m2) == ~IsNaN(x) /\ ~IsNaN(m2) /\ 2 * x[1] >= m2[1]
LtMedian(x, m2) == ~IsNaN(x) /\ ~IsNaN(m2) /\ 2 * x[1] < m2[1]
\* Variant: a missing growth compares as 0.
GeZeroFilled(g) == IsNaN(g) \/ g[1] >= 0
GeZero(g) == ~IsNaN(g) /\ g[1] >= 0
LtZero(g) == ~IsNaN(g) /\ g[1] < 0

\* Variant: Invest asks for growth > 0.
StrategyStrictGrowth(row, m2) ==
    LET s0 == "Watch"
        s1 == IF GeMedian(row.export_value, m2) /\ ~IsNaN(row.growth) /\ row.growth[1] > 0
              THEN "Invest" ELSE s0
        s2 == IF LtMedian(row.export_value, m2) /\ GeZero(row.growth) THEN "Nurture" ELSE s1
        s3 == IF GeMedian(row.export_value, m2) /\ LtZero(row.growth) THEN "Defend" ELSE s2
    IN  s3

\* df["strategy"] = "Watch", then the three df.loc[...] overwrites in source order.
Strategy(row, m2) ==
    LET s0 == "Watch"
        s1 == IF GeMedian(row.export_value, m2) /\ GeZero(row.growth) THEN "Invest" ELSE s0
        s2 == IF LtMedian(row.export_value, m2) /\ GeZero(row.growth) THEN "Nurture" ELSE s1
        s3 == IF GeMedian(row.export_value, m2) /\ LtZero(row.growth) THEN "Defend" ELSE s2
    IN  s3

WithStrategy(row, s) ==
    [country |-> row.country, export_value |-> row.export_value, growth |-> row.growth,
     world_rank |-> row.world_rank, strategy |-> s]

\* Variant: the median is taken before the aggregate row is removed.
CleanMedianFirst(f) ==
    LET all == [i \in 1..Len(f.rows) |-> Coerce(f.rows[i])]
        median_value == Median2(all, "export_value")
        num == RemoveAggregate(all)
    IN  [i \in 1..Len(num) |-> WithStrategy(num[i], Strategy(num[i], median_value))]

\* The frame load_data() returns for file f (all column lookups succeeding).
Clean(f) ==
    LET kept == RemoveAggregate(f.rows)
        num == [i \in 1..Len(kept) |-> Coerce(kept[i])]
        median_value == Median2(num, "export_value")
    IN  [i \in 1..Len(num) |-> WithStrategy(num[i], Strategy(num[i], median_value))]

-----------------------------------------------------------------------------
(* DataFrame.sort_values("export_value", ascending=False): NaN rows last,  *)
(* in their original order; the order among equal values is the sorting    *)
(* algorithm's (quicksort, not stable), so every such order is possible.   *)

Perms(n) == { p \in [1..n -> 1..n] : \A i, j \in 1..n : p[i] = p[j] => i = j }

\* Variant: ascending=True.
InAscOrder(a, b, ia, ib) ==
    \/ ~IsNaN(a) /\ ~IsNaN(b) /\ a[1] <= b[1]
    \/ ~IsNaN(a) /\ IsNaN(b)
    \/ IsNaN(a) /\ IsNaN(b) /\ ia < ib

InDescOrder(a, b, ia, ib) ==
    \/ ~IsNaN(a) /\ ~IsNaN(b) /\ a[1] >= b[1]
    \/ ~IsNaN(a) /\ IsNaN(b)
    \/ IsNaN(a) /\ IsNaN(b) /\ ia < ib

SortedDesc(d) ==
    { Pick(d, p) : p \in { q \in Perms(Len(d)) :
        \A k \in 1..(Len(d) - 1) :
            InDescOrder(d[q[k]].export_value, d[q[k + 1]].export_value, q[k], q[k + 1]) } }

\* DataFrame.head(k)
head(d, k) == SubSeq(d, 1, IF Len(d) < k THEN Len(d) ELSE k)

\* Variant: Series.count() in place of nunique().
count(d, col) == Len(d)

\* Series.nunique()
nunique(d, col) == Cardinality({ d[i][col] : i \in 1..Len(d) })

\* export_value ** 0.5, kept exact as the square root of its radicand.
Sqrt(x) == [sqrt_of |-> x[1]]

-----------------------------------------------------------------------------
(* The server process and its script runs.                                 *)

VARIABLES
    file,               \* the static input table
    cache,              \* st.cache_data's entry for load_data(): <<>> or <<frame>>
    df,                 \* the run's module-level df: <<>> before load_data() returned
    pc,                 \* where the current script run stands
    error,              \* the exception that ended the run, or None
    analyze,            \* the Analyze button's value in this run
    returned,           \* every frame load_data() has returned in this process
    served,             \* the ways load_data() calls were served so far
    rendered,           \* the report sections rendered in this run
    total_exports,      \* <<>> until computed
    top_country_share,  \* <<>> until computed, then <<[max, total]>>: max / total * 100
    avg_growth,         \* <<>> until computed, then <<[sum, count]>>: sum / count
    page                \* the element last sent to the browser

vars == <<file, cache, df, pc, error, analyze, returned, served, rendered,
          total_exports, top_country_share, avg_growth, page>>

Top10N == 10
FocusN == 3

Blank == [kind |-> "blank"]

Sections == {"summary", "footprint", "matrix", "recommendations", "table"}

\* A fresh server process: nothing cached, the first script run about to start.
Fresh ==
    /\ cache = <<>>
    /\ df = <<>>
    /\ pc = "load"
    /\ error = None
    /\ analyze = FALSE
    /\ returned = {}
    /\ served = {}
    /\ rendered = {}
    /\ total_exports = <<>>
    /\ top_country_share = <<>>
    /\ avg_growth = <<>>
    /\ page = Blank

Init == IsFile(file, ReportRankCells) /\ Fresh

InitLoad == IsFile(file, RankCells) /\ Fresh

\* A value handed out by st.cache_data is a copy of the stored one.
Copy(frame) == frame

\* Variant: the frame is stored before its strategy column is filled in.
LoadDataMissStoresUnlabelled ==
    /\ pc = "load"
    /\ cache = <<>>
    /\ LookupsSucceed(file)
    /\ cache' = <<[i \in 1..Len(Clean(file)) |-> WithStrategy(Clean(file)[i], "Watch")]>>
    /\ df' = <<Copy(Clean(file))>>
    /\ returned' = returned \cup {Clean(file)}
    /\ served' = served \cup {IF returned = {} THEN "computed" ELSE "recomputed"}
    /\ pc' = "gate"
    /\ UNCHANGED <<file, error, analyze, rendered, total_exports, top_country_share,
                   avg_growth, page>>

\* df = load_data(), cache miss: the body runs and its result is stored.
LoadDataMiss ==
    /\ pc = "load"
    /\ cache = <<>>
    /\ LookupsSucceed(file)
    /\ cache' = <<Clean(file)>>
    /\ df' = <<Copy(Clean(file))>>
    /\ returned' = returned \cup {Clean(file)}
    /\ served' = served \cup {IF returned = {} THEN "computed" ELSE "recomputed"}
    /\ pc' = "gate"
    /\ UNCHANGED <<file, error, analyze, rendered, total_exports, top_country_share,
                   avg_growth, page>>

\* df = load_data(), cache miss: a column lookup raises KeyError; nothing is stored
\* and the script run ends there.
LoadDataError ==
    /\ pc = "load"
    /\ cache = <<>>
    /\ ~LookupsSucceed(file)
    /\ error' = "KeyError"
    /\ pc' = "error"
    /\ UNCHANGED <<file, cache, df, analyze, returned, served, rendered, total_exports,
                   top_country_share, avg_growth, page>>

\* df = load_data(), cache hit: the body does not run.
LoadDataHit ==
    /\ pc = "load"
    /\ cache # <<>>
    /\ df' = <<Copy(cache[1])>>
    /\ returned' = returned \cup {Copy(cache[1])}
    /\ served' = served \cup {"cached"}
    /\ pc' = "gate"
    /\ UNCHANGED <<file, cache, error, analyze, rendered, total_exports,
                   top_country_share, avg_growth, page>>

\* Variant: no st.stop().
GateWithoutStop ==
    /\ pc = "gate"
    /\ \E clicked \in BOOLEAN : analyze' = clicked
    /\ pc' = "summary"
    /\ page' = [kind |-> "gate"]
    /\ UNCHANGED <<file, cache, df, error, returned, served, rendered, total_exports,
                   top_country_share, avg_growth>>

\* The title, the HSN text input and the Analyze button; st.stop() unless it fired.
Gate ==
    /\ pc = "gate"
    /\ \E clicked \in BOOLEAN :
        /\ analyze' = clicked
        /\ pc' = IF clicked THEN "summary" ELSE "stopped"
    /\ page' = [kind |-> "gate"]
    /\ UNCHANGED <<file, cache, df, error, returned, served, rendered, total_exports,
                   top_country_share, avg_growth>>

\* Executive summary: the three scalars and the four metrics.
Summary ==
    /\ pc = "summary"
    /\ total_exports' = <<Sum(df[1], "export_value")>>
    /\ top_country_share' = <<[max |-> Max(df[1], "export_value"),
                               total |-> Sum(df[1], "export_value")]>>
    /\ avg_growth' = <<[sum |-> Sum(df[1], "growth"),
                        count |-> Len(Values(df[1], "growth"))]>>
    /\ page' = [kind |-> "summary",
                total |-> Sum(df[1], "export_value"),
                active_markets |-> nunique(df[1], "country")]
    /\ rendered' = rendered \cup {"summary"}
    /\ pc' = "footprint"
    /\ UNCHANGED <<file, cache, df, error, analyze, returned, served>>

\* Variant: df.sort_values(..., inplace=True).
FootprintSortsInPlace ==
    /\ pc = "footprint"
    /\ \E sorted \in SortedDesc(df[1]) :
        /\ df' = <<sorted>>
        /\ page' = [kind |-> "footprint", top10 |-> head(sorted, Top10N)]
    /\ rendered' = rendered \cup {"footprint"}
    /\ pc' = "matrix"
    /\ UNCHANGED <<file, cache, error, analyze, returned, served, total_exports,
                   top_country_share, avg_growth>>

\* Global footprint: the choropleth of df and the bar chart of top10.
Footprint ==
    /\ pc = "footprint"
    /\ \E sorted \in SortedDesc(df[1]) :
        page' = [kind |-> "footprint", top10 |-> head(sorted, Top10N)]
    /\ rendered' = rendered \cup {"footprint"}
    /\ pc' = "matrix"
    /\ UNCHANGED <<file, cache, df, error, analyze, returned, served, total_exports,
                   top_country_share, avg_growth>>

\* scatter_df: the filtered copy of df with the added bubble_size column.
ScatterDf(d) ==
    LET part == Filter(d, [i \in 1..Len(d) |->
                    ~IsNaN(d[i].export_value) /\ d[i].export_value[1] > 0])
    IN  [i \in 1..Len(part) |->
            [country |-> part[i].country, export_value |-> part[i].export_value,
             growth |-> part[i].growth, world_rank |-> part[i].world_rank,
             strategy |-> part[i].strategy, bubble_size |-> Sqrt(part[i].export_value)]]

\* Market opportunity matrix: the scatter of scatter_df with its quadrant lines.
Matrix ==
    /\ pc = "matrix"
    /\ page' = [kind |-> "matrix",
                scatter_df |-> ScatterDf(df[1]),
                median_growth |-> Median2(ScatterDf(df[1]), "growth"),
                median_value |-> Median2(ScatterDf(df[1]), "export_value")]
    /\ rendered' = rendered \cup {"matrix"}
    /\ pc' = "recs"
    /\ UNCHANGED <<file, cache, df, error, analyze, returned, served, total_exports,
                   top_country_share, avg_growth>>

\* Strategic recommendations: focus, risk_country and the markdown naming them.
Recommendations ==
    /\ pc = "recs"
    /\ Len(df[1]) > 0
    /\ \E invest \in SortedDesc(Filter(df[1],
                        [i \in 1..Len(df[1]) |-> df[1][i].strategy = "Invest"])),
          sorted \in SortedDesc(df[1]) :
        page' = [kind |-> "recommendations",
                 focus |-> [k \in 1..Len(head(invest, FocusN)) |-> invest[k].country],
                 risk_country |-> sorted[1],
                 share |-> top_country_share[1]]
    /\ rendered' = rendered \cup {"recommendations"}
    /\ pc' = "table"
    /\ UNCHANGED <<file, cache, df, error, analyze, returned, served, total_exports,
                   top_country_share, avg_growth>>

\* On an empty frame .iloc[0] raises IndexError and the run ends.
RecommendationsError ==
    /\ pc = "recs"
    /\ Len(df[1]) = 0
    /\ error' = "IndexError"
    /\ pc' = "error"
    /\ UNCHANGED <<file, cache, df, analyze, returned, served, rendered, total_exports,
                   top_country_share, avg_growth, page>>

\* The sorted table of four columns; the script ends.
Table ==
    /\ pc = "table"
    /\ \E sorted \in SortedDesc(df[1]) :
        page' = [kind |-> "table",
                 rows |-> [i \in 1..Len(sorted) |->
                            [country |-> sorted[i].country,
                             export_value |-> sorted[i].export_value,
                             growth |-> sorted[i].growth,
                             strategy |-> sorted[i].strategy]]]
    /\ rendered' = rendered \cup {"table"}
    /\ pc' = "done"
    /\ UNCHANGED <<file, cache, df, error, analyze, returned, served, total_exports,
                   top_country_share, avg_growth>>

\* A widget interaction or a new session: the script runs again from the top.
Rerun ==
    /\ pc \in {"stopped", "done", "error"}
    /\ pc' = "load"
    /\ df' = <<>>
    /\ error' = None
    /\ analyze' = FALSE
    /\ rendered' = {}
    /\ total_exports' = <<>>
    /\ top_country_share' = <<>>
    /\ avg_growth' = <<>>
    /\ page' = Blank
    /\ UNCHANGED <<file, cache, returned, served>>

\* The cache entry is dropped between runs (st.cache_data.clear, "Clear cache").
ClearCache ==
    /\ pc \in {"stopped", "done", "error"}
    /\ cache # <<>>
    /\ cache' = <<>>
    /\ UNCHANGED <<file, df, pc, error, analyze, returned, served, rendered,
                   total_exports, top_country_share, avg_growth, page>>

Next ==
    \/ LoadDataMiss
    \/ LoadDataError
    \/ LoadDataHit
    \/ Gate
    \/ Summary
    \/ Footprint
    \/ Matrix
    \/ Recommendations
    \/ RecommendationsError
    \/ Table
    \/ Rerun
    \/ ClearCache

Spec == Init /\ [][Next]_vars

\* load_data() and the executive summary alone, on the wider input.
NextLoad ==
    \/ LoadDataMiss
    \/ LoadDataError
    \/ Gate
    \/ Summary

SpecLoad == InitLoad /\ [][NextLoad]_vars

-----------------------------------------------------------------------------
(* What the properties below read, stated from the input file and the      *)
(* frame alone (not through the operators of load_data above).             *)

Loaded == df # <<>>

Labels == {"Invest", "Nurture", "Defend", "Watch"}

AllColumnsPresent == SourceHeaders \subseteq file.headers

\* The number each numeric text cell of the input stands for; every other cell
\* is unparsable.
CellValue == (<<"0">> :> 0) @@ (<<"3", "0">> :> 30) @@ (<<"7", "0">> :> 70)
             @@ (<<"-", "2">> :> (0 - 2)) @@ (<<"7">> :> 7)

Parsable(cell) == cell \in DOMAIN CellValue

Expected(cell) == IF Parsable(cell) THEN <<CellValue[cell]>> ELSE NaN

NotWorld(r) == r.country # "World"

\* The input rows that are not the world aggregate, in file order.
KeptRows == SelectSeq(file.rows, NotWorld)

\* The k-th smallest entry (k in 1..Len(v)) of the integer sequence v.
OrderStat(v, k) ==
    CHOOSE x \in { v[i] : i \in 1..Len(v) } :
        /\ Cardinality({ i \in 1..Len(v) : v[i] < x }) < k
        /\ Cardinality({ i \in 1..Len(v) : v[i] <= x }) >= k

\* Twice the median of the non-empty integer sequence v.
TwiceMedian(v) == OrderStat(v, (Len(v) + 1) \div 2) + OrderStat(v, (Len(v) + 2) \div 2)

\* The quadrant of (value against twice the median m2, sign of growth).
Quadrant(value, growth, m2) ==
    CASE 2 * value >= m2 /\ growth >= 0 -> "Invest"
      [] 2 * value < m2 /\ growth >= 0 -> "Nurture"
      [] 2 * value >= m2 /\ growth < 0 -> "Defend"
      [] 2 * value < m2 /\ growth < 0 -> "Watch"

\* The non-missing export values of the frame d, in row order.
PresentValues(d) ==
    LET idx == { i \in 1..Len(d) : d[i].export_value # NaN }
        RECURSIVE walk(_)
        walk(i) == IF i > Len(d) THEN <<>>
                   ELSE (IF i \in idx THEN <<d[i].export_value[1]>> ELSE <<>>) \o walk(i + 1)
    IN  walk(1)

\* The numbers of the parsable export cells of the kept input rows, in order.
KeptExportNumbers ==
    LET RECURSIVE walk(_)
        walk(i) == IF i > Len(KeptRows) THEN <<>>
                   ELSE (IF Parsable(KeptRows[i].export_value)
                         THEN <<CellValue[KeptRows[i].export_value]>> ELSE <<>>)
                        \o walk(i + 1)
    IN  walk(1)

RECURSIVE Total(_)
Total(v) == IF v = <<>> THEN 0 ELSE v[1] + Total(Tail(v))

Unique(d) == \A i, j \in 1..Len(d) : d[i].country = d[j].country => i = j

-----------------------------------------------------------------------------
\* C1: after load_data() every row carries one label of {Invest, Nurture, Defend,
\* Watch}, and a row with both export_value and growth present carries the quadrant
\* of (export_value against the median of the frame's present export values, sign
\* of growth).
C1_QuadrantLabels ==
    Loaded =>
        \A i \in 1..Len(df[1]) :
            /\ df[1][i].strategy \in Labels
            /\ (df[1][i].export_value # NaN /\ df[1][i].growth # NaN) =>
                  df[1][i].strategy =
                      Quadrant(df[1][i].export_value[1], df[1][i].growth[1],
                               TwiceMedian(PresentValues(df[1])))

\* Two rows on either side of the median: one Nurture, one Defend.
C1_Witness ==
    /\ Loaded
    /\ Len(df[1]) = 2
    /\ df[1][1].strategy = "Nurture"
    /\ df[1][2].strategy = "Defend"

\* C2: a row of the returned frame whose export_value or growth is missing is
\* Watch, also when every export_value is missing.
C2_MissingIsWatch ==
    Loaded =>
        \A i \in 1..Len(df[1]) :
            (df[1][i].export_value = NaN \/ df[1][i].growth = NaN) =>
                df[1][i].strategy = "Watch"

\* Every export_value missing (no median), one row with growth present and one
\* with a value-less growth.
C2_Witness ==
    /\ Loaded
    /\ Len(df[1]) = 2
    /\ PresentValues(df[1]) = <<>>
    /\ df[1][1].growth # NaN /\ df[1][1].growth[1] >= 0
    /\ df[1][2].growth = NaN

\* C3: the returned frame holds no World row, holds every other input row in
\* file order, and labels its rows against the median of the kept rows' export
\* numbers alone.
C3_AggregateExcluded ==
    Loaded =>
        /\ \A i \in 1..Len(df[1]) : df[1][i].country # "World"
        /\ Len(df[1]) = Len(KeptRows)
        /\ \A i \in 1..Len(df[1]) :
            /\ df[1][i].country = KeptRows[i].country
            /\ (Parsable(KeptRows[i].export_value) /\ Parsable(KeptRows[i].growth)) =>
                  df[1][i].strategy =
                      Quadrant(CellValue[KeptRows[i].export_value],
                               CellValue[KeptRows[i].growth],
                               TwiceMedian(KeptExportNumbers))

\* A World row whose value, had it entered the median, would have moved the one
\* kept row below it.
C3_Witness ==
    /\ Loaded
    /\ Len(file.rows) = 2
    /\ file.rows[1].country = "World" /\ file.rows[1].export_value = <<"7", "0">>
    /\ file.rows[2].country = "USA" /\ file.rows[2].export_value = <<"3", "0">>
    /\ Len(df[1]) = 1
    /\ df[1][1].strategy \in {"Invest", "Defend"}

\* C4: with one of the four source columns lacking, load_data() ends in KeyError:
\* no frame is returned or cached and no report section is rendered.
C4_SchemaErrorNoDataset ==
    ~AllColumnsPresent =>
        /\ df = <<>>
        /\ cache = <<>>
        /\ returned = {}
        /\ rendered = {}
        /\ total_exports = <<>>
        /\ page = Blank
        /\ pc \in {"load", "error"}
        /\ pc = "error" => error = "KeyError"

\* The growth column lacking, rows present, the run ended in the error.
C4_Witness ==
    /\ GrowthHdr \notin file.headers
    /\ file.headers = SourceHeaders \ {GrowthHdr}
    /\ Len(file.rows) = MaxRows
    /\ pc = "error"

\* C5: with all columns present the load never aborts; every kept row stays at
\* its position with its country, each numeric field is the cell's number or, for
\* an unparsable cell, missing; total_exports sums the parsable export cells only.
C5_CellCoercion ==
    AllColumnsPresent =>
        /\ error # "KeyError"
        /\ Loaded =>
            /\ Len(df[1]) = Len(KeptRows)
            /\ \A i \in 1..Len(df[1]) :
                /\ df[1][i].country = KeptRows[i].country
                /\ df[1][i].export_value = Expected(KeptRows[i].export_value)
                /\ df[1][i].growth = Expected(KeptRows[i].growth)
                /\ df[1][i].world_rank = Expected(KeptRows[i].world_rank)
        /\ total_exports # <<>> => total_exports[1] = Total(KeptExportNumbers)

\* The summary computed over a row with an unparsable export cell, beside a row
\* with an unparsable rank and a positive value.
C5_Witness ==
    /\ total_exports # <<>>
    /\ Len(df[1]) = 2
    /\ ~Parsable(KeptRows[1].export_value)
    /\ ~Parsable(KeptRows[1].growth)
    /\ ~Parsable(KeptRows[2].world_rank)
    /\ total_exports[1] = 30

C7_DatasetImmutable ==
    [][(Loaded /\ pc \in {"gate", "summary", "footprint", "matrix", "recs", "table"})
        => (df' = df /\ cache' = cache)]_vars

\* A finished report whose sorted table starts with another row than the frame
\* does.
C7_Witness ==
    /\ pc = "done"
    /\ rendered = Sections
    /\ Len(df[1]) = 2
    /\ page.kind = "table"
    /\ page.rows[1].country # df[1][1].country

\* C8: a run computes and renders the report only if Analyze fired in it, and
\* after load_data() returned; a run without it stops at the input prompt.
C8_AnalyzeGates ==
    /\ (\/ rendered # {}
        \/ total_exports # <<>>
        \/ top_country_share # <<>>
        \/ avg_growth # <<>>
        \/ page.kind \in Sections
        \/ pc \in {"summary", "footprint", "matrix", "recs", "table", "done"})
       => (analyze /\ Loaded)
    /\ pc = "stopped" =>
        (~analyze /\ Loaded /\ rendered = {} /\ total_exports = <<>> /\ page.kind = "gate")

\* A run on a cached frame that stopped at the prompt.
C8_Witness ==
    /\ pc = "stopped"
    /\ "cached" \in served
    /\ Len(df[1]) = MaxRows

\* C9 as stated: no two rows of the returned frame have the same country.
C9_CountryUnique == Loaded => Unique(df[1])

\* C9, amended: load_data() keeps the countries of the input as they are: the
\* frame's countries are unique exactly when those of the kept input rows are, and
\* the Active Markets metric is the number of distinct countries, at most the
\* number of rows and equal to it exactly when the countries are unique.
C9_CountryPreserved ==
    Loaded =>
        /\ Unique(df[1]) <=> Unique(KeptRows)
        /\ page.kind = "summary" =>
            /\ page.active_markets = Cardinality({ KeptRows[i].country : i \in 1..Len(KeptRows) })
            /\ page.active_markets <= Len(df[1])
            /\ page.active_markets = Len(df[1]) <=> Unique(df[1])

\* The summary of a frame with the same country in both rows.
C9_Witness ==
    /\ page.kind = "summary"
    /\ Len(df[1]) = 2
    /\ df[1][1].country = df[1][2].country
    /\ page.active_markets = 1

\* C10: when some export_value is present, the row named under Concentration Risk
\* has a present export_value, the largest of the frame, which is the numerator of
\* the share shown beside it.
C10_RiskCountryIsTop ==
    (page.kind = "recommendations" /\ PresentValues(df[1]) # <<>>) =>
        /\ page.risk_country.export_value # NaN
        /\ \A i \in 1..Len(df[1]) :
            df[1][i].export_value # NaN =>
                page.risk_country.export_value[1] >= df[1][i].export_value[1]
        /\ \E i \in 1..Len(df[1]) : df[1][i] = page.risk_country
        /\ page.share.max = page.risk_country.export_value
        /\ page.share.total = Total(PresentValues(df[1]))

\* Values [30, 70]: the second row is named, beside a share of 70 / 100 * 100.
C10_Witness ==
    /\ page.kind = "recommendations"
    /\ Len(df[1]) = 2
    /\ df[1][1].export_value = <<30>>
    /\ page.risk_country = df[1][2]
    /\ page.share = [max |-> <<70>>, total |-> 100]

=============================================================================
